---- MODULE Spec2Model ----
(***************************************************************************)
(* Model of kernel-print: the kernel_print!, kernel_println! and           *)
(* kernel_dbg! macros of src/src/lib.rs, in both builds (the default       *)
(* streaming build and the build with feature "format"), over a kernel     *)
(* sink whose write primitive can fail.                                    *)
(*                                                                         *)
(* Text is a sequence of one-character strings.  The sink is represented   *)
(* by the log of the write calls it received.                              *)
(***************************************************************************)
EXTENDS Integers, Sequences, FiniteSets, TLC

VARIABLES mode, sink, pc, cur, counter, hist, budget

vars == <<mode, sink, pc, cur, counter, hist, budget>>

(* ------------------------------ bounds --------------------------------- *)

\* calls the sequential caller makes in one behaviour
MaxCalls == 2

\* expressions passed to one kernel_dbg! call
MaxExprs == 2

(* ------------------------------- text ---------------------------------- *)

NL == <<"\n">>

DigitChars == <<"0", "1", "2", "3", "4", "5", "6", "7", "8", "9">>

RECURSIVE Digits(_)
\* Display / Debug of a non-negative integer: its decimal digits
Digits(n) ==
    IF n < 10 THEN <<DigitChars[n + 1]>>
    ELSE Digits(n \div 10) \o <<DigitChars[(n % 10) + 1]>>

RECURSIVE Concat(_)
Concat(ss) == IF ss = <<>> THEN <<>> ELSE Head(ss) \o Concat(Tail(ss))

IsPrefix(s, t) == Len(s) <= Len(t) /\ SubSeq(t, 1, Len(s)) = s

(* ------------------------- format requests ----------------------------- *)

\* a format request is the sequence of its items as written at the call
\* site: the literal pieces of the format string and the arguments between
\* them.  Str and Const are arguments that are literals in the source
\* (file!(), stringify!(..), line!(), 2); Num and Dbg are integers known at
\* run time only, formatted with {} and with {:#?}
Lit(s) == [k |-> "lit", s |-> s, n |-> 0]
Str(s) == [k |-> "str", s |-> s, n |-> 0]
Const(n) == [k |-> "const", s |-> <<>>, n |-> n]
Num(n) == [k |-> "num", s |-> <<>>, n |-> n]
Dbg(n) == [k |-> "dbg", s |-> <<>>, n |-> n]

\* the text one item formats to
Render(it) == IF it.k \in {"lit", "str"} THEN it.s ELSE Digits(it.n)

IsLiteral(it) == it.k \in {"lit", "str", "const"}

Piece(acc) == IF acc = <<>> THEN <<>> ELSE <<Lit(acc)>>

RECURSIVE FoldFrom(_, _)
\* format_args! folds the literal arguments into the pieces around them; an
\* empty piece is not laid out
FoldFrom(acc, req) ==
    IF req = <<>> THEN Piece(acc)
    ELSE IF IsLiteral(Head(req)) THEN FoldFrom(acc \o Render(Head(req)), Tail(req))
    ELSE Piece(acc) \o <<Head(req)>> \o FoldFrom(<<>>, Tail(req))

\* the request as format_args! lays it out: pieces and run-time arguments
Layout(req) == FoldFrom(<<>>, req)

\* the write_str calls formatting one laid-out item makes: a piece and a {}
\* integer are one call; a {:#?} integer is the (empty) prefix and the digits
ItemWrites(it) ==
    IF it.k = "dbg" THEN << <<>>, Digits(it.n) >> ELSE <<Render(it)>>

RECURSIVE LayoutWrites(_)
LayoutWrites(lay) ==
    IF lay = <<>> THEN <<>> ELSE ItemWrites(Head(lay)) \o LayoutWrites(Tail(lay))

\* the write_str calls write_fmt makes for a request, in order.  A request
\* without run-time arguments is one string and is written by one call, also
\* when it is empty
Fragments(req) ==
    LET lay == Layout(req)
    IN IF \A i \in 1..Len(lay) : lay[i].k = "lit"
       THEN <<Concat([i \in 1..Len(lay) |-> lay[i].s])>>
       ELSE LayoutWrites(lay)

RECURSIVE FormatInto(_, _)
\* alloc::format!: the owned buffer grown item by item
FormatInto(out, req) ==
    IF req = <<>> THEN out
    ELSE FormatInto(out \o Render(Head(req)), Tail(req))

Format(req) == FormatInto(<<>>, req)

\* the argument lists the callers pass to print / println
EmptyFormat == <<>>
R_lit == <<Lit(<<"h", "i">>)>>
\* "{} + {} = {}", 2, 2, 2 + 2
R_sum == <<Const(2), Lit(<<" ", "+", " ">>), Const(2), Lit(<<" ", "=", " ">>), Num(4)>>
\* "{} + {} = {}", a, b, c with a = 2, b = 2, c = 4 at run time
R_run == <<Num(2), Lit(<<" ", "+", " ">>), Num(2), Lit(<<" ", "=", " ">>), Num(4)>>
\* "n={}{}", a, b with a = 12, b = 0 at run time
R_two == <<Lit(<<"n", "=">>), Num(12), Lit(<<>>), Num(0)>>

Requests == {EmptyFormat, R_lit, R_sum, R_run, R_two}

Given(r) == [given |-> TRUE, fmt |-> r]
NoArgs == [given |-> FALSE, fmt |-> <<>>]

PrintArgs == {Given(r) : r \in Requests}
PrintlnArgs == PrintArgs \cup {NoArgs}

\* kernel_println!() is kernel_println!("")
PrintlnFormat(a) == IF a.given THEN a.fmt ELSE EmptyFormat

(* ------------------------------ callers -------------------------------- *)

Callers == {1, 2}
Main == 1

Unit == [kind |-> "unit", vals |-> <<>>]
Value(v) == [kind |-> "value", vals |-> <<v>>]
Tuple(vs) == [kind |-> "tuple", vals |-> vs]

NoCall ==
    [op |-> "none", args |-> NoArgs, exprs |-> <<>>, comma |-> FALSE, arm |-> "none",
     idx |-> 0, tmp |-> 0, vals |-> <<>>, evald |-> <<>>, evalAt |-> <<>>,
     nl |-> FALSE, req |-> <<>>, frags |-> <<>>, pos |-> 0, out |-> <<>>,
     writes |-> <<>>, c0 |-> 0, id |-> 0]

(* ---------------------------- kernel sink ------------------------------ *)

\* one write call on the kernel sink: the text handed over and the result the
\* sink reported
SinkWrite(c, data, ok) ==
    Append(sink, [by |-> c, id |-> cur[c].id, data |-> data, ok |-> ok])

Logged(rec, data, ok) ==
    [rec EXCEPT !.writes = Append(@, [data |-> data, ok |-> ok, e |-> rec.idx])]

(* ----------------------- print / println macros ------------------------ *)

\* what follows one expansion of kernel_print! / kernel_println!: inside
\* kernel_dbg! the value just echoed is yielded and the next element of the
\* tuple expression is evaluated; otherwise the macro call is over
AfterPrint(rec) ==
    IF rec.op = "dbg" /\ rec.idx >= 1
    THEN [rec EXCEPT !.vals = Append(@, rec.tmp),
                     !.idx = IF rec.idx < Len(rec.exprs) THEN rec.idx + 1 ELSE rec.idx]
    ELSE rec

AfterPrintPc(rec) ==
    IF rec.op = "dbg" /\ rec.idx >= 1 /\ rec.idx < Len(rec.exprs) THEN "eval" ELSE "ret"

\* __impl_print! / __impl_println! entered with a format request: the
\* streaming build creates a KernelWriter and calls write_fmt, the buffered
\* build formats the whole message (and pushes the newline) into `out`
\* faulty variant: the buffered println forgets out.push('\n')
BuildOut_NoNewline(req, nl) == Format(req)

BuildOut(req, nl) == IF nl THEN Format(req) \o NL ELSE Format(req)

Entered(rec, req, nl) ==
    [rec EXCEPT !.req = req, !.nl = nl, !.frags = Fragments(req), !.pos = 1,
                !.out = IF mode = "buffered" THEN BuildOut(req, nl) ELSE <<>>]

\* faulty variant: the streaming macro bodies are compiled into the buffered build too
EnteredPc_Streaming(rec, req, nl) == "fmt"

\* the streaming build always calls write_fmt, which makes at least one
\* write_str call
EnteredPc(rec, req, nl) == IF mode = "buffered" THEN "flush" ELSE "fmt"

NewCall(c, op) ==
    [NoCall EXCEPT !.op = op, !.c0 = counter, !.id = Len(hist) + 1]

CallPrint(c, a) ==
    /\ pc[c] = "idle" /\ budget[c] > 0
    /\ LET rec == [NewCall(c, "print") EXCEPT !.args = a]
       IN /\ cur' = [cur EXCEPT ![c] = Entered(rec, a.fmt, FALSE)]
          /\ pc' = [pc EXCEPT ![c] = EnteredPc(rec, a.fmt, FALSE)]
    /\ budget' = [budget EXCEPT ![c] = @ - 1]
    /\ UNCHANGED <<mode, sink, counter, hist>>

CallPrintln(c, a) ==
    /\ pc[c] = "idle" /\ budget[c] > 0
    /\ LET rec == [NewCall(c, "println") EXCEPT !.args = a]
       IN /\ cur' = [cur EXCEPT ![c] = Entered(rec, PrintlnFormat(a), TRUE)]
          /\ pc' = [pc EXCEPT ![c] = EnteredPc(rec, PrintlnFormat(a), TRUE)]
    /\ budget' = [budget EXCEPT ![c] = @ - 1]
    /\ UNCHANGED <<mode, sink, counter, hist>>

\* faulty variant: the result of write_fmt is unwrapped instead of dropped
WriteFragment_Unwrap(c, ok) ==
    /\ pc[c] = "fmt"
    /\ LET rec == cur[c]
           f == rec.frags[rec.pos]
           rec1 == Logged(rec, f, ok)
       IN /\ sink' = SinkWrite(c, f, ok)
          /\ IF ~ok
             THEN /\ cur' = [cur EXCEPT ![c] = rec1]
                  /\ pc' = [pc EXCEPT ![c] = "panicked"]
             ELSE IF rec.pos < Len(rec.frags)
             THEN /\ cur' = [cur EXCEPT ![c] = [rec1 EXCEPT !.pos = @ + 1]]
                  /\ pc' = pc
             ELSE IF rec.nl
             THEN /\ cur' = [cur EXCEPT ![c] = rec1]
                  /\ pc' = [pc EXCEPT ![c] = "nl"]
             ELSE /\ cur' = [cur EXCEPT ![c] = AfterPrint(rec1)]
                  /\ pc' = [pc EXCEPT ![c] = AfterPrintPc(rec1)]
    /\ UNCHANGED <<mode, counter, hist, budget>>

\* faulty variant: a failed write_fmt leaves the macro body at once, as `?` would
WriteFragment_EarlyReturn(c, ok) ==
    /\ pc[c] = "fmt"
    /\ LET rec == cur[c]
           f == rec.frags[rec.pos]
           rec1 == Logged(rec, f, ok)
       IN /\ sink' = SinkWrite(c, f, ok)
          /\ IF ok /\ rec.pos < Len(rec.frags)
             THEN /\ cur' = [cur EXCEPT ![c] = [rec1 EXCEPT !.pos = @ + 1]]
                  /\ pc' = pc
             ELSE IF rec.nl /\ ok
             THEN /\ cur' = [cur EXCEPT ![c] = rec1]
                  /\ pc' = [pc EXCEPT ![c] = "nl"]
             ELSE /\ cur' = [cur EXCEPT ![c] = AfterPrint(rec1)]
                  /\ pc' = [pc EXCEPT ![c] = AfterPrintPc(rec1)]
    /\ UNCHANGED <<mode, counter, hist, budget>>

\* streaming: write_fmt hands the next fragment to the sink; it returns at the
\* first failed write or after the last fragment, and the macro drops its
\* result (`let _ =`)
WriteFragment(c, ok) ==
    /\ pc[c] = "fmt"
    /\ LET rec == cur[c]
           f == rec.frags[rec.pos]
           more == ok /\ rec.pos < Len(rec.frags)
           rec1 == Logged(rec, f, ok)
       IN /\ sink' = SinkWrite(c, f, ok)
          /\ IF more
             THEN /\ cur' = [cur EXCEPT ![c] = [rec1 EXCEPT !.pos = @ + 1]]
                  /\ pc' = pc
             ELSE IF rec.nl
             THEN /\ cur' = [cur EXCEPT ![c] = rec1]
                  /\ pc' = [pc EXCEPT ![c] = "nl"]
             ELSE /\ cur' = [cur EXCEPT ![c] = AfterPrint(rec1)]
                  /\ pc' = [pc EXCEPT ![c] = AfterPrintPc(rec1)]
    /\ UNCHANGED <<mode, counter, hist, budget>>

\* streaming println: writer.write_nl(), result dropped
WriteNl(c, ok) ==
    /\ pc[c] = "nl"
    /\ LET rec1 == Logged(cur[c], NL, ok)
       IN /\ sink' = SinkWrite(c, NL, ok)
          /\ cur' = [cur EXCEPT ![c] = AfterPrint(rec1)]
          /\ pc' = [pc EXCEPT ![c] = AfterPrintPc(rec1)]
    /\ UNCHANGED <<mode, counter, hist, budget>>

\* faulty variant: an empty buffer is not written at all
Flush_SkipEmpty(c, ok) ==
    /\ pc[c] = "flush"
    /\ LET rec1 == IF cur[c].out = <<>> THEN cur[c] ELSE Logged(cur[c], cur[c].out, ok)
       IN /\ sink' = IF cur[c].out = <<>> THEN sink ELSE SinkWrite(c, cur[c].out, ok)
          /\ cur' = [cur EXCEPT ![c] = AfterPrint(rec1)]
          /\ pc' = [pc EXCEPT ![c] = AfterPrintPc(rec1)]
    /\ UNCHANGED <<mode, counter, hist, budget>>

\* buffered: the one __kernel_println(out) call, result dropped
Flush(c, ok) ==
    /\ pc[c] = "flush"
    /\ LET rec1 == Logged(cur[c], cur[c].out, ok)
       IN /\ sink' = SinkWrite(c, cur[c].out, ok)
          /\ cur' = [cur EXCEPT ![c] = AfterPrint(rec1)]
          /\ pc' = [pc EXCEPT ![c] = AfterPrintPc(rec1)]
    /\ UNCHANGED <<mode, counter, hist, budget>>

(* ---------------------------- kernel_dbg! ------------------------------ *)

\* the expressions handed to kernel_dbg!: their source text (stringify!) and
\* what evaluating them does
E_sum == [text |-> <<"2", " ", "+", " ", "2">>, kind |-> "const"]
E_inc == [text |-> <<"i", "n", "c", "(", ")">>, kind |-> "inc"]
E_boom == [text |-> <<"b", "o", "o", "m", "(", ")">>, kind |-> "fail"]

Exprs == {E_sum, E_inc, E_boom}

ExprLists == UNION {[1..n -> Exprs] : n \in 0..MaxExprs}

\* file!() and line!() of the call site
CallSite == [file |-> <<"a", ".", "r", "s">>, line |-> 10]

\* evaluating an expression once: whether it fails, the value it yields and
\* the counter it leaves behind
Fails(e) == e.kind = "fail"
EvalValue(e, cnt) == IF e.kind = "inc" THEN cnt + 1 ELSE 2 + 2
EvalCounter(e, cnt) == IF e.kind = "inc" THEN cnt + 1 ELSE cnt

\* faulty variant: the arm for a single expression with a trailing comma is missing,
\* so such a call falls through to the tuple arm
DbgArm_NoTrailing(n, comma) ==
    IF n = 0 THEN "empty"
    ELSE IF n = 1 /\ ~comma THEN "single"
    ELSE "tuple"

\* the macro arm a call matches, arms tried in source order
DbgArm(n, comma) ==
    IF n = 0 THEN "empty"
    ELSE IF n = 1 /\ ~comma THEN "single"
    ELSE IF n = 1 /\ comma THEN "trailing"
    ELSE "tuple"

\* kernel_println!("[{}:{}]", file!(), line!())
LocationRequest ==
    <<Lit(<<"[">>), Str(CallSite.file), Lit(<<":">>), Const(CallSite.line), Lit(<<"]">>)>>

\* kernel_println!("[{}:{}] {} = {:#?}", file!(), line!(), stringify!($val), &tmp)
EchoRequest(e, tmp) ==
    <<Lit(<<"[">>), Str(CallSite.file), Lit(<<":">>), Const(CallSite.line),
      Lit(<<"]", " ">>), Str(e.text), Lit(<<" ", "=", " ">>), Dbg(tmp)>>

DbgCall(c, es, comma) ==
    /\ pc[c] = "idle" /\ budget[c] > 0
    /\ comma => Len(es) >= 1
    /\ LET rec == [NewCall(c, "dbg") EXCEPT !.exprs = es, !.comma = comma,
                                            !.arm = DbgArm(Len(es), comma),
                                            !.idx = IF es = <<>> THEN 0 ELSE 1]
       IN IF es = <<>>
          THEN /\ cur' = [cur EXCEPT ![c] = Entered(rec, LocationRequest, TRUE)]
               /\ pc' = [pc EXCEPT ![c] = EnteredPc(rec, LocationRequest, TRUE)]
          ELSE /\ cur' = [cur EXCEPT ![c] = rec]
               /\ pc' = [pc EXCEPT ![c] = "eval"]
    /\ budget' = [budget EXCEPT ![c] = @ - 1]
    /\ UNCHANGED <<mode, sink, counter, hist>>

\* faulty variant: $val is expanded twice, once for the echo and once as the result
DbgEval_Twice(c) ==
    /\ pc[c] = "eval"
    /\ LET rec == cur[c]
           e == rec.exprs[rec.idx]
           rec0 == [rec EXCEPT !.evalAt = Append(@, Len(rec.writes))]
       IN IF Fails(e)
          THEN /\ cur' = [cur EXCEPT ![c] = rec0]
               /\ pc' = [pc EXCEPT ![c] = "panicked"]
               /\ counter' = counter
          ELSE LET v1 == EvalValue(e, counter)
                   v2 == EvalValue(e, EvalCounter(e, counter))
                   rec1 == [rec0 EXCEPT !.tmp = v2, !.evald = Append(Append(@, v1), v2)]
               IN /\ counter' = EvalCounter(e, EvalCounter(e, counter))
                  /\ cur' = [cur EXCEPT ![c] = Entered(rec1, EchoRequest(e, v1), TRUE)]
                  /\ pc' = [pc EXCEPT ![c] = EnteredPc(rec1, EchoRequest(e, v1), TRUE)]
    /\ UNCHANGED <<mode, sink, hist, budget>>

\* faulty variant: all expressions of the call are evaluated before the first echo, as
\* `match ($($val),+) { tmps => ... }` would
DbgEval_Eager(c) ==
    /\ pc[c] = "eval"
    /\ LET rec == cur[c]
           e == rec.exprs[rec.idx]
           n == Len(rec.exprs)
           rest == IF rec.idx = 1 THEN 2..n ELSE {}
           rec0 == [rec EXCEPT !.evalAt = Append(@, Len(rec.writes))]
       IN IF Fails(e)
          THEN /\ cur' = [cur EXCEPT ![c] = rec0]
               /\ pc' = [pc EXCEPT ![c] = "panicked"]
               /\ counter' = counter
          ELSE IF \E i \in rest : Fails(rec.exprs[i])
          THEN /\ cur' = [cur EXCEPT ![c] =
                             [rec0 EXCEPT !.evalAt = Append(@, Len(rec.writes)),
                                          !.evald = Append(@, EvalValue(e, counter))]]
               /\ pc' = [pc EXCEPT ![c] = "panicked"]
               /\ counter' = EvalCounter(e, counter)
          ELSE LET v == EvalValue(e, counter)
                   rec1 == [rec0 EXCEPT !.tmp = v, !.evald = Append(@, v)]
               IN /\ counter' = EvalCounter(e, counter)
                  /\ cur' = [cur EXCEPT ![c] = Entered(rec1, EchoRequest(e, v), TRUE)]
                  /\ pc' = [pc EXCEPT ![c] = EnteredPc(rec1, EchoRequest(e, v), TRUE)]
    /\ UNCHANGED <<mode, sink, hist, budget>>

\* `match $val { tmp => { kernel_println!(...); tmp } }`: the expression is
\* evaluated into tmp, then echoed; a failing evaluation unwinds out of the
\* macro call
DbgEval(c) ==
    /\ pc[c] = "eval"
    /\ LET rec == cur[c]
           e == rec.exprs[rec.idx]
           rec0 == [rec EXCEPT !.evalAt = Append(@, Len(rec.writes))]
       IN IF Fails(e)
          THEN /\ cur' = [cur EXCEPT ![c] = rec0]
               /\ pc' = [pc EXCEPT ![c] = "panicked"]
               /\ counter' = counter
          ELSE LET v == EvalValue(e, counter)
                   rec1 == [rec0 EXCEPT !.tmp = v, !.evald = Append(@, v)]
               IN /\ counter' = EvalCounter(e, counter)
                  /\ cur' = [cur EXCEPT ![c] = Entered(rec1, EchoRequest(e, v), TRUE)]
                  /\ pc' = [pc EXCEPT ![c] = EnteredPc(rec1, EchoRequest(e, v), TRUE)]
    /\ UNCHANGED <<mode, sink, hist, budget>>

\* faulty variant: the tuple is built from the last expression to the first
Result_Reversed(rec) ==
    IF rec.op # "dbg" \/ rec.arm = "empty" THEN Unit
    ELSE IF rec.arm = "tuple"
    THEN Tuple([i \in 1..Len(rec.vals) |-> rec.vals[Len(rec.vals) + 1 - i]])
    ELSE Value(rec.vals[1])

\* the value of the macro call
Result(rec) ==
    IF rec.op # "dbg" \/ rec.arm = "empty" THEN Unit
    ELSE IF rec.arm = "tuple" THEN Tuple(rec.vals)
    ELSE Value(rec.vals[1])

\* the macro call completes and control is back in the caller
Return(c) ==
    /\ pc[c] = "ret"
    /\ hist' = Append(hist, [by |-> c, call |-> cur[c], result |-> Result(cur[c]),
                             c1 |-> counter])
    /\ cur' = [cur EXCEPT ![c] = NoCall]
    /\ pc' = [pc EXCEPT ![c] = "idle"]
    /\ UNCHANGED <<mode, sink, counter, budget>>

(* --------------------------- specifications ---------------------------- *)

Modes == {"streaming", "buffered"}

\* one caller issuing print / println calls one after the other
Init ==
    /\ mode \in Modes
    /\ sink = <<>>
    /\ pc = [c \in Callers |-> "idle"]
    /\ cur = [c \in Callers |-> NoCall]
    /\ counter = 0
    /\ hist = <<>>
    /\ budget = [c \in Callers |-> IF c = Main THEN MaxCalls ELSE 0]

Next ==
    \/ \E a \in PrintArgs : CallPrint(Main, a)
    \/ \E a \in PrintlnArgs : CallPrintln(Main, a)
    \/ \E ok \in BOOLEAN : WriteFragment(Main, ok)
    \/ \E ok \in BOOLEAN : WriteNl(Main, ok)
    \/ \E ok \in BOOLEAN : Flush(Main, ok)
    \/ Return(Main)

Spec == Init /\ [][Next]_vars

\* one caller issuing one kernel_dbg! call
InitDbg ==
    /\ mode \in Modes
    /\ sink = <<>>
    /\ pc = [c \in Callers |-> "idle"]
    /\ cur = [c \in Callers |-> NoCall]
    /\ counter = 0
    /\ hist = <<>>
    /\ budget = [c \in Callers |-> IF c = Main THEN 1 ELSE 0]

NextDbg ==
    \/ \E es \in ExprLists, comma \in BOOLEAN : DbgCall(Main, es, comma)
    \/ DbgEval(Main)
    \/ \E ok \in BOOLEAN : WriteFragment(Main, ok)
    \/ \E ok \in BOOLEAN : WriteNl(Main, ok)
    \/ \E ok \in BOOLEAN : Flush(Main, ok)
    \/ Return(Main)

SpecDbg == InitDbg /\ [][NextDbg]_vars

\* two callers, each issuing one print / println call, against the same sink
InitConc ==
    /\ mode \in Modes
    /\ sink = <<>>
    /\ pc = [c \in Callers |-> "idle"]
    /\ cur = [c \in Callers |-> NoCall]
    /\ counter = 0
    /\ hist = <<>>
    /\ budget = [c \in Callers |-> 1]

NextConc ==
    \E c \in Callers :
        \/ \E a \in PrintArgs : CallPrint(c, a)
        \/ \E a \in PrintlnArgs : CallPrintln(c, a)
        \/ \E ok \in BOOLEAN : WriteFragment(c, ok)
        \/ \E ok \in BOOLEAN : WriteNl(c, ok)
        \/ \E ok \in BOOLEAN : Flush(c, ok)
        \/ Return(c)

SpecConc == InitConc /\ [][NextConc]_vars

(* ------------------------ reading the histories ------------------------ *)

\* the text handed to the sink by a sequence of writes, and their results
Text(ws) == Concat([i \in 1..Len(ws) |-> ws[i].data])
Oks(ws) == [i \in 1..Len(ws) |-> ws[i].ok]
AllFailed(ws) == \A i \in 1..Len(ws) : ~ws[i].ok

Completed == {hist[i] : i \in 1..Len(hist)}
Prints == {h \in Completed : h.call.op \in {"print", "println"}}

\* the fragment writes of a completed streaming call (all but the newline write)
FragWrites(rec) ==
    IF rec.nl THEN SubSeq(rec.writes, 1, Len(rec.writes) - 1) ELSE rec.writes

\* what the streaming build hands to a sink that accepts every write
StreamOut(req, nl) == Concat(Fragments(req)) \o (IF nl THEN NL ELSE <<>>)

\* some write of one call lies between two writes of another call
Interleaved(s) ==
    \E i, j, k \in 1..Len(s) :
        /\ i < j /\ j < k
        /\ s[i].by = s[k].by /\ s[i].id = s[k].id
        /\ s[j].by # s[i].by

(* ======================= print / println claims ======================== *)

InFlight(c) == pc[c] \in {"fmt", "nl", "flush", "eval", "ret"}

\* C1: whatever results the sink reports, a print or println call never
\* fails: no caller is ever left with a panic, a call in flight can always take
\* its next step, and every completed call yields the unit value, the failed
\* writes being dropped.
C1_PrintNeverFails ==
    /\ \A c \in Callers : pc[c] # "panicked"
    /\ \A c \in Callers : InFlight(c) => ENABLED Next
    /\ \A h \in Prints : h.result = Unit

\* both calls of the behaviour completed although the sink failed every write
C1_Witness ==
    /\ Len(hist) = 2 /\ Len(sink) >= 3
    /\ AllFailed(sink)
    /\ \E h \in Prints : h.call.op = "print" /\ h.call.writes # <<>>
    /\ \E h \in Prints : h.call.op = "println" /\ Len(h.call.writes) >= 1

\* C3: for every completed print / println call the text handed to the sink
\* is the same in both builds: the fragments written by the streaming build
\* concatenate to the buffer the buffered build writes, whatever the sink
\* answers.  A streaming call is compared with what the buffered build builds
\* for its request, a buffered call with what the streaming build writes.
C3_ModeIndependent ==
    \A h \in Prints :
        Text(h.call.writes) =
            IF mode = "streaming" THEN BuildOut(h.call.req, h.call.nl)
            ELSE StreamOut(h.call.req, h.call.nl)

\* the results of the fragment writes of a call (none in the buffered build,
\* where the message is not written in fragments)
MsgOks(rec) == IF mode = "streaming" THEN Oks(FragWrites(rec)) ELSE <<>>

\* C4: a println hands to the sink what the print with the same arguments
\* hands to it (the sink answering the message writes alike), followed by
\* exactly one newline; a println without arguments hands over one newline.
C4_PrintlnIsPrintPlusNewline ==
    /\ \A p, q \in Prints :
           ( /\ p.call.op = "print" /\ q.call.op = "println"
             /\ p.call.args = q.call.args
             /\ MsgOks(p.call) = MsgOks(q.call) )
           => Text(q.call.writes) = Text(p.call.writes) \o NL
    /\ \A q \in Prints :
           (q.call.op = "println" /\ q.call.args = NoArgs) => Text(q.call.writes) = NL

\* a print and a println of the same three-or-more-character message
C4_Witness ==
    \E p, q \in Prints :
        /\ p.call.op = "print" /\ q.call.op = "println"
        /\ p.call.args = q.call.args
        /\ MsgOks(p.call) = MsgOks(q.call)
        /\ Len(Text(p.call.writes)) >= 3
        /\ Len(Text(q.call.writes)) = Len(Text(p.call.writes)) + 1

\* C5: in the buffered build a print / println call makes exactly one sink
\* write, and it carries the whole formatted message, with the newline for
\* println: never more than one write while in flight, exactly one at return.
C5_BufferedOneWrite ==
    mode = "buffered" =>
        /\ \A c \in Callers : Len(cur[c].writes) <= 1
        /\ \A c \in Callers :
               (pc[c] = "ret" /\ cur[c].op \in {"print", "println"})
                   => Len(cur[c].writes) = 1
        /\ \A h \in Prints :
               /\ Len(h.call.writes) = 1
               /\ h.call.writes[1].data =
                      Format(h.call.req) \o (IF h.call.op = "println" THEN NL ELSE <<>>)

\* a buffered println of a multi-item message and a buffered print of the
\* empty message, one write each
C5_Witness ==
    /\ mode = "buffered"
    /\ \E h \in Prints :
           /\ h.call.op = "println" /\ Len(h.call.req) >= 3
           /\ Len(h.call.writes) = 1 /\ Len(h.call.writes[1].data) >= 6
    /\ \E h \in Prints :
           /\ h.call.op = "print" /\ h.call.req = <<>>
           /\ Len(h.call.writes) = 1 /\ h.call.writes[1].data = <<>>

\* C9: in the streaming build a println attempts the newline write exactly
\* once, as its last write, after the fragment writes and whether or not one of
\* them failed: a call waiting at the newline write has written only fragments,
\* and a completed call wrote fragments and then the newline.
C9_NewlineAlwaysAttempted ==
    mode = "streaming" =>
        /\ \A c \in Callers :
               pc[c] = "nl" =>
                   /\ \A j \in 1..Len(cur[c].writes) :
                          cur[c].writes[j].data = cur[c].frags[j]
                   /\ ENABLED WriteNl(c, TRUE)
        /\ \A h \in Prints :
               h.call.op = "println" =>
                   LET ws == h.call.writes
                       fw == FragWrites(h.call)
                   IN /\ Len(ws) >= 1 /\ ws[Len(ws)].data = NL
                      /\ Len(fw) <= Len(h.call.frags)
                      /\ \A j \in 1..Len(fw) : fw[j].data = h.call.frags[j]
                      /\ (Len(fw) < Len(h.call.frags)) => ~fw[Len(fw)].ok

\* a println whose message write failed at its first fragment and whose
\* newline was then accepted by the sink
C9_Witness ==
    /\ mode = "streaming"
    /\ \E h \in Prints :
           /\ h.call.op = "println" /\ Len(h.call.frags) >= 2
           /\ Len(h.call.writes) = 2
           /\ ~h.call.writes[1].ok
           /\ h.call.writes[2] = [data |-> NL, ok |-> TRUE, e |-> 0]

(* ========================= kernel_dbg! claims ========================== *)

Echoes == {h \in Completed : h.call.op = "dbg"}

RECURSIVE ValuesFrom(_, _)
\* the values the expressions yield when evaluated directly, one after the
\* other from left to right, starting with the counter at cnt
ValuesFrom(es, cnt) ==
    IF es = <<>> THEN <<>>
    ELSE <<EvalValue(Head(es), cnt)>> \o ValuesFrom(Tail(es), EvalCounter(Head(es), cnt))

\* the echo line of an expression and its value, newline included
EchoLine(e, v) == Format(EchoRequest(e, v)) \o NL

\* the writes of a call that belong to the echo of its i-th expression
EchoWrites(rec, i) == {w \in 1..Len(rec.writes) : rec.writes[w].e = i}

\* the number of echo lines a call has finished writing: its newline writes in
\* the streaming build, its buffer writes in the buffered build
LinesEnded(ws) ==
    Cardinality({w \in 1..Len(ws) : ws[w].data # <<>> /\ ws[w].data[Len(ws[w].data)] = "\n"})

\* C2: a kernel_dbg! call on one expression evaluates it exactly once (one
\* evaluation recorded; a counter incremented in the expression grows by
\* exactly 1) and yields the value of that evaluation, in both builds and
\* whatever the sink answers.
C2_SingleEvaluation ==
    \A h \in Echoes :
        Len(h.call.exprs) = 1 =>
            LET e == h.call.exprs[1]
            IN /\ Len(h.call.evald) = 1
               /\ h.c1 - h.call.c0 = (IF e.kind = "inc" THEN 1 ELSE 0)
               /\ h.result.vals = <<EvalValue(e, h.call.c0)>>
               /\ h.result.vals = h.call.evald

\* a completed echo of the counting expression although every sink write failed
C2_Witness ==
    \E h \in Echoes :
        /\ h.call.exprs = <<E_inc>> /\ ~h.call.comma
        /\ h.call.writes # <<>> /\ AllFailed(h.call.writes)
        /\ h.c1 = h.call.c0 + 1
        /\ h.result = Value(1)

\* C6: a kernel_dbg! call on two or more expressions writes their echo
\* lines from left to right (no write of a later expression's echo precedes
\* a write of an earlier one's; with every write accepted the sink holds the
\* echo lines in input order) and yields the tuple of their values in input
\* order.
C6_TupleInOrder ==
    \A h \in Echoes :
        Len(h.call.exprs) >= 2 =>
            LET rec == h.call
                ws == rec.writes
                expected == ValuesFrom(rec.exprs, rec.c0)
            IN /\ h.result = Tuple(expected)
               /\ \A i, j \in 1..Len(ws) : i < j => ws[i].e <= ws[j].e
               /\ \A i \in 1..Len(rec.exprs) : EchoWrites(rec, i) # {}
               /\ (\A w \in 1..Len(ws) : ws[w].ok) =>
                      Text(ws) = Concat([i \in 1..Len(rec.exprs) |->
                                            EchoLine(rec.exprs[i], expected[i])])

\* kernel_dbg!(inc(), 2 + 2) returned (1, 4) with both echo lines accepted
C6_Witness ==
    \E h \in Echoes :
        /\ h.call.exprs = <<E_inc, E_sum>>
        /\ h.result = Tuple(<<1, 4>>)
        /\ \A w \in 1..Len(h.call.writes) : h.call.writes[w].ok
        /\ Text(h.call.writes) = EchoLine(E_inc, 1) \o EchoLine(E_sum, 4)

\* C7: a kernel_dbg! call on one expression followed by a comma behaves as
\* the call without the comma: one evaluation, one echo line and no further
\* write after it, and the value itself as the result, not a one-element tuple.
C7_TrailingComma ==
    \A h \in Echoes :
        (Len(h.call.exprs) = 1 /\ h.call.comma) =>
            LET rec == h.call
                e == rec.exprs[1]
            IN /\ Len(rec.evald) = 1
               /\ h.c1 = EvalCounter(e, rec.c0)
               /\ h.result = Value(EvalValue(e, rec.c0))
               /\ LinesEnded(rec.writes) = 1
               /\ rec.writes[Len(rec.writes)].data[Len(rec.writes[Len(rec.writes)].data)] = "\n"
               /\ IsPrefix(Text(FragWrites(rec)), Format(EchoRequest(e, EvalValue(e, rec.c0))))
               /\ (\A w \in 1..Len(rec.writes) : rec.writes[w].ok) =>
                      Text(rec.writes) = EchoLine(e, EvalValue(e, rec.c0))

\* kernel_dbg!(inc(),) returned 1 after its one echo line
C7_Witness ==
    \E h \in Echoes :
        /\ h.call.exprs = <<E_inc>> /\ h.call.comma
        /\ h.result = Value(1) /\ h.c1 = 1
        /\ Text(h.call.writes) = EchoLine(E_inc, 1)

\* C10: in a kernel_dbg! call evaluation and echo alternate: every write of
\* the echo of Ei follows the evaluation of Ei, and the echo line of Ei is ended
\* before E(i+1) is evaluated; when evaluating an expression fails the call
\* does not return, the echo lines of the expressions before it are written
\* and nothing is written for it or for a later expression.
C10_EchoBeforeNextEval ==
    \A c \in Callers :
        LET rec == cur[c]
            k == Len(rec.evalAt)
        IN rec.op = "dbg" =>
            /\ \A i \in 1..k : \A w \in EchoWrites(rec, i) : w > rec.evalAt[i]
            /\ \A i \in 2..k :
                   /\ EchoWrites(rec, i - 1) # {}
                   /\ \A w \in EchoWrites(rec, i - 1) : w <= rec.evalAt[i]
                   /\ LinesEnded(SubSeq(rec.writes, 1, rec.evalAt[i])) = i - 1
            /\ pc[c] = "panicked" =>
                   /\ Fails(rec.exprs[k])
                   /\ Len(rec.evald) = k - 1
                   /\ LinesEnded(rec.writes) = k - 1
                   /\ \A i \in k..Len(rec.exprs) : EchoWrites(rec, i) = {}
                   /\ hist = <<>>

\* the second expression failed after the echo line of the first was written
C10_Witness ==
    \E c \in Callers :
        /\ pc[c] = "panicked"
        /\ cur[c].exprs = <<E_inc, E_boom>>
        /\ Len(cur[c].evalAt) = 2
        /\ counter = 1
        /\ cur[c].writes # <<>>
        /\ LinesEnded(cur[c].writes) = 1

(* ========================= concurrency claim =========================== *)

\* C8: with two callers printing against the same sink, the writes of the
\* two calls can interleave only in the streaming build; in the buffered
\* build each call makes a single write, which carries its whole message.
C8_InterleaveOnlyStreaming ==
    /\ Interleaved(sink) => mode = "streaming"
    /\ mode = "buffered" =>
           /\ \A c \in Callers : Cardinality({i \in 1..Len(sink) : sink[i].by = c}) <= 1
           /\ \A h \in Prints :
                  /\ Len(h.call.writes) = 1
                  /\ h.call.writes[1].data = BuildOut(h.call.req, h.call.nl)

\* a fragment of caller 2 written between two fragments of caller 1's message
C8_Witness ==
    /\ mode = "streaming"
    /\ \E i \in 1..(Len(sink) - 2) :
           /\ sink[i].by = 1 /\ sink[i + 1].by = 2 /\ sink[i + 2].by = 1
           /\ sink[i].data # NL /\ sink[i + 1].data # NL /\ sink[i + 2].data # NL
    /\ Interleaved(sink)

====
